---- MODULE Spec2Model ----
(***************************************************************************)
(* A model of ios2exif (src/src/main.rs): one run of `main` over the       *)
(* current directory.  Strings are sequences of bytes (0..255), as Rust's  *)
(* String / Vec<u8> are; the adapters, the plan (a BTreeMap keyed by the   *)
(* timestamp), the confirmation prompt and the rename loop are translated  *)
(* statement by statement.                                                 *)
(***************************************************************************)
EXTENDS Integers, Sequences, FiniteSets, TLC

(***************************************************************************)
(* Bytes and string literals                                               *)
(***************************************************************************)

\* The printable ASCII characters in code order, 32 (space) .. 126 (~); the three
\* that a TLA+ string cannot hold stand as words that match no character.
Printable ==
  << " ", "!", "QUOTE", "#", "$", "%", "&", "'", "(", ")", "*", "+", ",", "-", ".", "/",
     "0", "1", "2", "3", "4", "5", "6", "7", "8", "9", ":", ";", "<", "=", ">", "?",
     "@", "A", "B", "C", "D", "E", "F", "G", "H", "I", "J", "K", "L", "M", "N", "O",
     "P", "Q", "R", "S", "T", "U", "V", "W", "X", "Y", "Z", "[", "BACKSLASH", "]", "^", "_",
     "BACKTICK", "a", "b", "c", "d", "e", "f", "g", "h", "i", "j", "k", "l", "m", "n", "o",
     "p", "q", "r", "s", "t", "u", "v", "w", "x", "y", "z", "{", "|", "}", "~" >>

\* The byte of one character ("\n" is the line feed exiftool ends its output with).
Code(c) ==
  IF c = "\n" THEN 10
  ELSE 31 + (CHOOSE i \in 1..Len(Printable) : Printable[i] = c)

\* A string literal, written one character per element, as its bytes.
B(s) == [i \in 1..Len(s) |-> Code(s[i])]

\* The characters the program names.
Space == Code(" ")
Underscore == Code("_")
Colon == Code(":")
Hyphen == Code("-")
Slash == Code("/")
Dot == Code(".")
UpperA == Code("A")
UpperZ == Code("Z")
LowerA == Code("a")

\* Option<String>: None, or Some(val).
None == [some |-> FALSE, val |-> <<>>]
Some(v) == [some |-> TRUE, val |-> v]

(***************************************************************************)
(* Pure functions of the program                                           *)
(***************************************************************************)

\* str::replace(from, to) with one-character patterns: every byte equal to
\* from becomes to, all other bytes are kept.
Replace(s, from, to) == [i \in 1..Len(s) |-> IF s[i] = from THEN to ELSE s[i]]

\* The normalization without its second replace: the colons stay.
Normalize_SpacesOnly(s) == Replace(s, Space, Underscore)

\* timestamp.replace(" ", "_") and then .replace(":", "-").
Normalize(s) == Replace(Replace(s, Space, Underscore), Colon, Hyphen)

\* str::from_utf8(slice).is_ok(): the well-formed UTF-8 byte sequences.
RECURSIVE Utf8From(_, _)
Utf8From(s, i) ==
  LET n == Len(s)
      Cont(j, lo, hi) == j <= n /\ s[j] >= lo /\ s[j] <= hi
      b == s[i]
  IN  IF i > n THEN TRUE
      ELSE IF b <= 127 THEN Utf8From(s, i + 1)
      ELSE IF b >= 194 /\ b <= 223
        THEN Cont(i + 1, 128, 191) /\ Utf8From(s, i + 2)
      ELSE IF b = 224
        THEN Cont(i + 1, 160, 191) /\ Cont(i + 2, 128, 191) /\ Utf8From(s, i + 3)
      ELSE IF (b >= 225 /\ b <= 236) \/ b = 238 \/ b = 239
        THEN Cont(i + 1, 128, 191) /\ Cont(i + 2, 128, 191) /\ Utf8From(s, i + 3)
      ELSE IF b = 237
        THEN Cont(i + 1, 128, 159) /\ Cont(i + 2, 128, 191) /\ Utf8From(s, i + 3)
      ELSE IF b = 240
        THEN Cont(i + 1, 144, 191) /\ Cont(i + 2, 128, 191)
             /\ Cont(i + 3, 128, 191) /\ Utf8From(s, i + 4)
      ELSE IF b >= 241 /\ b <= 243
        THEN Cont(i + 1, 128, 191) /\ Cont(i + 2, 128, 191)
             /\ Cont(i + 3, 128, 191) /\ Utf8From(s, i + 4)
      ELSE IF b = 244
        THEN Cont(i + 1, 128, 143) /\ Cont(i + 2, 128, 191)
             /\ Cont(i + 3, 128, 191) /\ Utf8From(s, i + 4)
      ELSE FALSE

Utf8Valid(s) == Utf8From(s, 1)

\* The positions of byte b in s.
Positions(s, b) == {i \in 1..Len(s) : s[i] = b}

Max(S) == CHOOSE x \in S : \A y \in S : y <= x

\* Path::file_name of a path that ends in a normal component: what follows the
\* last slash.
FileName(path) ==
  LET sl == Positions(path, Slash)
  IN  IF sl = {} THEN path ELSE SubSeq(path, Max(sl) + 1, Len(path))

\* Path::extension: None when the file name is "..", has no dot, or has its only
\* dot in front; otherwise what follows the last dot.
PathExtension(path) ==
  LET name == FileName(path)
      dots == Positions(name, Dot)
  IN  IF name = <<Dot, Dot>> \/ dots = {} \/ Max(dots) = 1 THEN None
      ELSE Some(SubSeq(name, Max(dots) + 1, Len(name)))

\* str::to_lowercase on ASCII text: A..Z become a..z.
ToLowercase(s) ==
  [i \in 1..Len(s) |->
     IF s[i] >= UpperA /\ s[i] <= UpperZ THEN s[i] + (LowerA - UpperA) ELSE s[i]]

\* The extension `main` computes: Some(extension.to_lowercase()) or None.
LowerExtension(path) ==
  LET e == PathExtension(path)
  IN  IF e.some THEN Some(ToLowercase(e.val)) ELSE None

\* The extensions of the match in `main` (main.rs:71-77).
PhotoExtensions ==
  { B(<<"j","p","g">>), B(<<"j","p","e","g">>), B(<<"p","n","g">>), B(<<"h","e","i","c">>) }
VideoExtensions == { B(<<"m","o","v">>), B(<<"m","p","4">>) }

\* try_exif_first with the "mov" arm returning true.
try_exif_first_MovAsPhoto(extension) ==
  IF ~extension.some THEN "exif"
  ELSE IF extension.val \in PhotoExtensions \cup {B(<<"m","o","v">>)} THEN "exif"
  ELSE IF extension.val \in VideoExtensions \ {B(<<"m","o","v">>)} THEN "tool"
  ELSE "unsupported"

\* The match on the extension in `main`: "exif" for try_exif_first = true (a photo
\* extension, or no extension), "tool" for try_exif_first = false (a video
\* extension), "unsupported" for the arm that warns and continues.
try_exif_first(extension) ==
  IF ~extension.some THEN "exif"
  ELSE IF extension.val \in PhotoExtensions THEN "exif"
  ELSE IF extension.val \in VideoExtensions THEN "tool"
  ELSE "unsupported"

\* What the exif crate gives for a file: `status` is "open_failed" (File::open),
\* "invalid" (read_from_container), "missing" (no primary DateTimeOriginal) or
\* "ok", and then `display` is display_value().to_string().
\* Result<String, String> as [ok, val]; the Err text is printed, not kept.
get_timestamp_from_exif(x) ==
  IF x.status = "ok" THEN [ok |-> TRUE, val |-> Normalize(x.display)]
  ELSE [ok |-> FALSE, val |-> <<>>]

\* The byte count stripped from the CreationDate output: 1 for the ending newline
\* and 6 for the timezone.
TzSuffix == 7

\* What `exiftool -CreationDate -s3` gives: out.ran is whether the process could
\* be executed, out.stdout its standard output.  The result is "Some" with the
\* timestamp, "None", or "Panic": for 0 < length < 7 the usize subtraction
\* length - 7 overflows (a panic in a debug build; in a release build it wraps
\* and the slice end is out of range, a panic as well).
get_timestamp_from_exiftool_creationdate(out) ==
  LET length == Len(out.stdout)
      slice == SubSeq(out.stdout, 1, length - TzSuffix)
  IN  IF ~out.ran THEN [tag |-> "None", val |-> <<>>]
      ELSE IF length <= 0 THEN [tag |-> "None", val |-> <<>>]
      ELSE IF length < TzSuffix THEN [tag |-> "Panic", val |-> <<>>]
      ELSE IF ~Utf8Valid(slice) THEN [tag |-> "None", val |-> <<>>]
      ELSE [tag |-> "Some", val |-> Normalize(slice)]

\* What `exiftool -CreateDate -s3` gives; only the ending newline is stripped.
get_timestamp_from_exiftool_createdate(out) ==
  LET length == Len(out.stdout)
      slice == SubSeq(out.stdout, 1, length - 1)
  IN  IF ~out.ran THEN [tag |-> "None", val |-> <<>>]
      ELSE IF length <= 0 THEN [tag |-> "None", val |-> <<>>]
      ELSE IF ~Utf8Valid(slice) THEN [tag |-> "None", val |-> <<>>]
      ELSE [tag |-> "Some", val |-> Normalize(slice)]

\* The marker put into the name of a file resolved by CreateDate.
UtcMarker == B(<<" ", "(", "u", "t", "c", ")">>)

\* The name formatted without the dot between timestamp and extension.
PlainName_NoDot(timestamp, extension) ==
  IF extension.some THEN timestamp \o extension.val ELSE timestamp

\* format!("{timestamp}.{extension}") or the bare timestamp.
PlainName(timestamp, extension) ==
  IF extension.some THEN timestamp \o <<Dot>> \o extension.val ELSE timestamp

\* The CreateDate branch formatting its name as the other two branches do.
UtcName_NoMarker(timestamp, extension) ==
  IF extension.some THEN timestamp \o <<Dot>> \o extension.val ELSE timestamp

\* format!("{timestamp} (utc).{extension}") or format!("{timestamp} (utc)").
UtcName(timestamp, extension) ==
  IF extension.some THEN timestamp \o UtcMarker \o <<Dot>> \o extension.val
  ELSE timestamp \o UtcMarker

\* The order of String, which is the order of the BTreeMap's keys: bytewise
\* lexicographic.
LexLess(a, b) ==
  \E i \in 1..(Len(b)) :
     /\ \A j \in 1..(i - 1) : j <= Len(a) /\ a[j] = b[j]
     /\ \/ i = Len(a) + 1
        \/ i <= Len(a) /\ a[i] < b[i]

\* The keys of the map in the order its iterator yields them.
RECURSIVE SortKeys(_)
SortKeys(S) ==
  IF S = {} THEN <<>>
  ELSE LET k == CHOOSE x \in S : \A y \in S : x = y \/ LexLess(x, y)
       IN  <<k>> \o SortKeys(S \ {k})

KeysInOrder(m) == SortKeys(DOMAIN m)


(***************************************************************************)
(* The environment: the directory's entries and what the exif crate and    *)
(* exiftool answer for each file                                           *)
(***************************************************************************)

\* The most entries the directory holds.
MaxEntries == 3

\* env::current_dir().
Cwd == B(<<"/", "d">>)

RanOut(bytes) == [ran |-> TRUE, stdout |-> bytes]
NotRun == [ran |-> FALSE, stdout |-> <<>>]
ExifOk(display) == [status |-> "ok", display |-> display]
ExifErr(status) == [status |-> status, display |-> <<>>]

File(name, exif, creationdate, createdate) ==
  [kind |-> "file", name |-> name, exif |-> exif,
   creationdate |-> creationdate, createdate |-> createdate]

\* Raw tag values, as the comments at the head of main.rs give them.
Exif_0525 == B(<<"2","0","2","3","-","0","5","-","2","5"," ","1","9",":","4","7",":","3","0">>)
Exif_0514 == B(<<"2","0","2","3","-","0","5","-","1","4"," ","2","1",":","3","4",":","0","6">>)
Exif_0526 == B(<<"2","0","2","3","-","0","5","-","2","6"," ","0","8",":","0","0",":","0","0">>)
Tag_0525 == B(<<"2","0","2","3",":","0","5",":","2","5"," ","1","9",":","4","7",":","3","0">>)
Tag_0514 == B(<<"2","0","2","3",":","0","5",":","1","4"," ","2","1",":","3","4",":","0","6">>)
Tag_0526 == B(<<"2","0","2","3",":","0","5",":","2","6"," ","0","8",":","0","0",":","0","0">>)
Zone == B(<<"-","0","5",":","0","0">>)
NL == B(<<"\n">>)

\* The canonical timestamps these resolve to.
T_0525 == B(<<"2","0","2","3","-","0","5","-","2","5","_","1","9","-","4","7","-","3","0">>)
T_0526 == B(<<"2","0","2","3","-","0","5","-","2","6","_","0","8","-","0","0","-","0","0">>)
T_0514 == B(<<"2","0","2","3","-","0","5","-","1","4","_","2","1","-","3","4","-","0","6">>)

\* The entries a directory is drawn from.  read_dir yields an Err ("err"), a
\* directory ("dir") or a file with the answers of the three metadata sources.
Entries ==
  { \* a photo with EXIF DateTimeOriginal (and QuickTime tags that must not be used)
    File(B(<<"a",".","j","p","g">>), ExifOk(Exif_0525),
         RanOut(Tag_0514 \o Zone \o NL), RanOut(Tag_0514 \o NL)),
    \* a photo without DateTimeOriginal, with CreationDate; upper-case extension
    File(B(<<"b",".","H","E","I","C">>), ExifErr("missing"),
         RanOut(Tag_0525 \o Zone \o NL), RanOut(Tag_0525 \o NL)),
    \* a video with CreateDate only (its container would decode as EXIF)
    File(B(<<"c",".","m","o","v">>), ExifOk(Exif_0526),
         RanOut(<<>>), RanOut(Tag_0514 \o NL)),
    \* a video with CreationDate; upper-case extension
    File(B(<<"d",".","M","P","4">>), ExifErr("invalid"),
         RanOut(Tag_0514 \o Zone \o NL), RanOut(Tag_0514 \o NL)),
    \* an unsupported extension
    File(B(<<"e",".","g","i","f">>), ExifOk(Exif_0526),
         RanOut(Tag_0514 \o Zone \o NL), RanOut(Tag_0514 \o NL)),
    \* no extension, no EXIF, a non-UTF-8 CreationDate, with CreateDate
    File(B(<<"f">>), ExifErr("invalid"),
         RanOut(<<255, 254>> \o Zone \o NL), RanOut(Tag_0526 \o NL)),
    \* a photo that cannot be opened, whose CreationDate output is 5 bytes long
    File(B(<<"g",".","p","n","g">>), ExifErr("open_failed"),
         RanOut(B(<<"2","0","2","3","\n">>)), RanOut(Tag_0525 \o NL)),
    \* a photo already named after a timestamp that is not its own
    File(T_0525 \o B(<<".","j","p","g">>), ExifOk(Exif_0526),
         RanOut(<<>>), RanOut(<<>>)),
    \* a photo without EXIF, exiftool failing to start once, with CreateDate
    File(B(<<"i",".","j","p","e","g">>), ExifErr("invalid"),
         NotRun, RanOut(Tag_0525 \o NL)),
    \* a video without either tag: no CreationDate, a non-UTF-8 CreateDate
    File(B(<<"j",".","m","p","4">>), ExifErr("invalid"),
         RanOut(<<>>), RanOut(<<255>> \o NL)),
    \* no extension, with EXIF DateTimeOriginal
    File(B(<<"k">>), ExifOk(Exif_0514),
         RanOut(<<>>), RanOut(<<>>)),
    \* a video whose CreationDate carries no timezone
    File(B(<<"l",".","m","p","4">>), ExifErr("invalid"),
         RanOut(Tag_0514 \o NL), RanOut(Tag_0514 \o NL)),
    \* no extension, no EXIF, a CreationDate that goes on after the seconds
    File(B(<<"m">>), ExifErr("invalid"),
         RanOut(Tag_0525 \o B(<<".","j","p","g">>) \o Zone \o NL), RanOut(<<>>)),
    [kind |-> "dir", name |-> B(<<"s","u","b">>), exif |-> ExifErr("open_failed"),
     creationdate |-> NotRun, createdate |-> NotRun],
    [kind |-> "err", name |-> <<>>, exif |-> ExifErr("open_failed"),
     creationdate |-> NotRun, createdate |-> NotRun] }

\* The entry of a name (the unreadable entry has none and stands under <<>>).
Entry(name) == CHOOSE e \in Entries : e.name = name

\* file.path(): the directory joined with the entry's name.
PathOf(e) == Cwd \o <<Slash>> \o e.name

\* The file a path names.
Meta(path) == CHOOSE e \in Entries : e.kind = "file" /\ PathOf(e) = path

\* What the user may type at the prompt.
Responses == {"Y", "y", "N", "n", "yes"}

(***************************************************************************)
(* State                                                                   *)
(***************************************************************************)

VARIABLES
  pc,                 \* where `main` is
  dir,                \* `files`: the entries read_dir has not yielded yet, by name
  fs,                 \* the directory: name |-> the file (by original name) under it
  needs_confirmation, \* main.rs:39
  must_exit,          \* main.rs:40
  map,                \* main.rs:41, timestamp |-> FileInfo
  cur,                \* path_str, extension and result of the entry in progress
  calls,              \* the adapters invoked for that entry, in order, with results
  collisions,         \* the "Attempted to add" errors printed (main.rs:96)
  fate,               \* path |-> how the file left the resolver
  prompts,            \* how often the [y/n] prompt was printed
  response,           \* what was read at the prompt
  it,                 \* how many entries the rename loop has consumed
  attempts,           \* the fs::rename calls made, in order
  reports             \* the per-rename lines printed (main.rs:144, 146)

vars == << pc, dir, fs, needs_confirmation, must_exit, map, cur, calls, collisions,
           fate, prompts, response, it, attempts, reports >>

\* How a file left the resolver: via "primary", "secondary" or "tertiary" with the
\* timestamp, or "unresolved" (None), or "unsupported" (never passed to it).
Fate(via, timestamp) == [via |-> via, timestamp |-> timestamp]

NoCur == [path |-> <<>>, extension |-> None, timestamp |-> <<>>, new_name |-> <<>>]

Init ==
  /\ pc = "next"
  /\ dir \in {S \in SUBSET {e.name : e \in Entries} : Cardinality(S) <= MaxEntries}
  /\ fs = [n \in {x \in dir : Entry(x).kind # "err"} |-> n]
  /\ needs_confirmation = FALSE
  /\ must_exit = FALSE
  /\ map = << >>
  /\ cur = NoCur
  /\ calls = << >>
  /\ collisions = << >>
  /\ fate = << >>
  /\ prompts = 0
  /\ response = ""
  /\ it = 0
  /\ attempts = << >>
  /\ reports = << >>


(***************************************************************************)
(* The enumeration pass (main.rs:43-110)                                   *)
(***************************************************************************)

\* One turn of `for file in files` up to the call of the resolver: an unreadable
\* entry, a directory, an unsupported extension, or a file for the adapters.
ReadEntry ==
  /\ pc = "next"
  /\ \E name \in dir :
       LET e == Entry(name)
       IN
       /\ dir' = dir \ {name}
       /\ IF e.kind = "err"
            THEN /\ needs_confirmation' = TRUE
                 /\ UNCHANGED << pc, cur, calls, fate >>
          ELSE IF e.kind = "dir"
            THEN UNCHANGED << pc, cur, calls, fate, needs_confirmation >>
          ELSE LET path_str == PathOf(e)
                   extension == LowerExtension(path_str)
                   route == try_exif_first(extension)
               IN  /\ cur' = [path |-> path_str, extension |-> extension,
                              timestamp |-> <<>>, new_name |-> <<>>]
                   /\ calls' = << >>
                   /\ IF route = "unsupported"
                        THEN /\ pc' = "next"
                             /\ fate' = fate @@ (path_str :> Fate("unsupported", <<>>))
                        ELSE /\ pc' = IF route = "exif" THEN "exif" ELSE "creationdate"
                             /\ fate' = fate
                   /\ UNCHANGED needs_confirmation
  /\ UNCHANGED << fs, must_exit, map, collisions, prompts, response, it, attempts,
                  reports >>

\* The EXIF branch without its `return`: a success falls through to CreationDate.
TryExif_FallsThrough ==
  /\ pc = "exif"
  /\ LET timestamp == get_timestamp_from_exif(Meta(cur.path).exif)
     IN  /\ calls' = Append(calls, [adapter |-> "exif", ok |-> timestamp.ok,
                                    val |-> timestamp.val])
         /\ IF timestamp.ok
              THEN /\ cur' = [cur EXCEPT !.timestamp = timestamp.val,
                                !.new_name = PlainName(timestamp.val, cur.extension)]
                   /\ fate' = fate @@ (cur.path :> Fate("primary", timestamp.val))
              ELSE UNCHANGED << cur, fate >>
         /\ pc' = "creationdate"
  /\ UNCHANGED << dir, fs, needs_confirmation, must_exit, map, collisions, prompts,
                  response, it, attempts, reports >>

\* get_timestamp_and_rename_pair, the EXIF branch (main.rs:162-177).
TryExif ==
  /\ pc = "exif"
  /\ LET timestamp == get_timestamp_from_exif(Meta(cur.path).exif)
     IN  /\ calls' = Append(calls, [adapter |-> "exif", ok |-> timestamp.ok,
                                    val |-> timestamp.val])
         /\ IF timestamp.ok
              THEN /\ cur' = [cur EXCEPT !.timestamp = timestamp.val,
                                !.new_name = PlainName(timestamp.val, cur.extension)]
                   /\ fate' = fate @@ (cur.path :> Fate("primary", timestamp.val))
                   /\ pc' = "insert"
              ELSE /\ pc' = "creationdate"
                   /\ UNCHANGED << cur, fate >>
  /\ UNCHANGED << dir, fs, needs_confirmation, must_exit, map, collisions, prompts,
                  response, it, attempts, reports >>

\* get_timestamp_and_rename_pair, the CreationDate branch (main.rs:179-188).
TryCreationDate ==
  /\ pc = "creationdate"
  /\ LET timestamp == get_timestamp_from_exiftool_creationdate(Meta(cur.path).creationdate)
     IN  /\ calls' = Append(calls, [adapter |-> "creationdate",
                                    ok |-> timestamp.tag = "Some", val |-> timestamp.val])
         /\ IF timestamp.tag = "Panic"
              THEN /\ pc' = "panicked"
                   /\ UNCHANGED << cur, fate >>
            ELSE IF timestamp.tag = "Some"
              THEN /\ cur' = [cur EXCEPT !.timestamp = timestamp.val,
                                !.new_name = PlainName(timestamp.val, cur.extension)]
                   /\ fate' = fate @@ (cur.path :> Fate("secondary", timestamp.val))
                   /\ pc' = "insert"
              ELSE /\ pc' = "createdate"
                   /\ UNCHANGED << cur, fate >>
  /\ UNCHANGED << dir, fs, needs_confirmation, must_exit, map, collisions, prompts,
                  response, it, attempts, reports >>


\* The None case without `needs_confirmation = true`.
TryCreateDate_NoWarning ==
  /\ pc = "createdate"
  /\ LET timestamp == get_timestamp_from_exiftool_createdate(Meta(cur.path).createdate)
     IN  /\ calls' = Append(calls, [adapter |-> "createdate",
                                    ok |-> timestamp.tag = "Some", val |-> timestamp.val])
         /\ IF timestamp.tag = "Some"
              THEN /\ cur' = [cur EXCEPT !.timestamp = timestamp.val,
                                !.new_name = UtcName(timestamp.val, cur.extension)]
                   /\ fate' = fate @@ (cur.path :> Fate("tertiary", timestamp.val))
                   /\ pc' = "insert"
              ELSE /\ fate' = fate @@ (cur.path :> Fate("unresolved", <<>>))
                   /\ pc' = "next"
                   /\ UNCHANGED cur
  /\ UNCHANGED << dir, fs, needs_confirmation, must_exit, map, collisions, prompts,
                  response, it, attempts, reports >>

\* get_timestamp_and_rename_pair, the CreateDate branch and the final None
\* (main.rs:190-202), with what `main` does on None (main.rs:87-90).
TryCreateDate ==
  /\ pc = "createdate"
  /\ LET timestamp == get_timestamp_from_exiftool_createdate(Meta(cur.path).createdate)
     IN  /\ calls' = Append(calls, [adapter |-> "createdate",
                                    ok |-> timestamp.tag = "Some", val |-> timestamp.val])
         /\ IF timestamp.tag = "Some"
              THEN /\ cur' = [cur EXCEPT !.timestamp = timestamp.val,
                                !.new_name = UtcName(timestamp.val, cur.extension)]
                   /\ fate' = fate @@ (cur.path :> Fate("tertiary", timestamp.val))
                   /\ pc' = "insert"
                   /\ UNCHANGED needs_confirmation
              ELSE /\ needs_confirmation' = TRUE
                   /\ fate' = fate @@ (cur.path :> Fate("unresolved", <<>>))
                   /\ pc' = "next"
                   /\ UNCHANGED cur
  /\ UNCHANGED << dir, fs, must_exit, map, collisions, prompts, response, it,
                  attempts, reports >>

\* fs::rename as the variant below calls it.
Renamed_Early(d, from, to) ==
  [n \in (DOMAIN d \ {FileName(from)}) \cup {to} |->
     IF n = to THEN d[FileName(from)] ELSE d[n]]

\* The insertion renaming the file at once instead of leaving it to the loop
\* after the pass.
PlanInsert_RenamesAtOnce ==
  /\ pc = "insert"
  /\ IF cur.timestamp \in DOMAIN map
       THEN /\ collisions' = Append(collisions,
                 [path |-> cur.path, timestamp |-> cur.timestamp,
                  existing |-> map[cur.timestamp].path])
            /\ must_exit' = TRUE
            /\ UNCHANGED << map, fs, attempts >>
       ELSE /\ map' = map @@ (cur.timestamp :>
                                [path |-> cur.path, new_name |-> cur.new_name])
            /\ fs' = Renamed_Early(fs, cur.path, cur.new_name)
            /\ attempts' = Append(attempts,
                 [timestamp |-> cur.timestamp, from |-> cur.path,
                  to |-> cur.new_name, ok |-> TRUE])
            /\ UNCHANGED << collisions, must_exit >>
  /\ pc' = "next"
  /\ UNCHANGED << dir, needs_confirmation, cur, calls, fate, prompts, response,
                  it, reports >>

\* The insertion made in both branches: BTreeMap::insert replaces the entry of a
\* key that is present.
PlanInsert_Overwrites ==
  /\ pc = "insert"
  /\ IF cur.timestamp \in DOMAIN map
       THEN /\ collisions' = Append(collisions,
                 [path |-> cur.path, timestamp |-> cur.timestamp,
                  existing |-> map[cur.timestamp].path])
            /\ must_exit' = TRUE
       ELSE UNCHANGED << collisions, must_exit >>
  /\ map' = [k \in DOMAIN map \cup {cur.timestamp} |->
               IF k = cur.timestamp
                 THEN [path |-> cur.path, new_name |-> cur.new_name]
                 ELSE map[k]]
  /\ pc' = "next"
  /\ UNCHANGED << dir, fs, needs_confirmation, cur, calls, fate, prompts, response,
                  it, attempts, reports >>

\* The duplicate branch with `break` in place of continuing the loop.
PlanInsert_BreaksOnDuplicate ==
  /\ pc = "insert"
  /\ IF cur.timestamp \in DOMAIN map
       THEN /\ collisions' = Append(collisions,
                 [path |-> cur.path, timestamp |-> cur.timestamp,
                  existing |-> map[cur.timestamp].path])
            /\ must_exit' = TRUE
            /\ pc' = "check"
            /\ UNCHANGED map
       ELSE /\ map' = map @@ (cur.timestamp :>
                                [path |-> cur.path, new_name |-> cur.new_name])
            /\ pc' = "next"
            /\ UNCHANGED << collisions, must_exit >>
  /\ UNCHANGED << dir, fs, needs_confirmation, cur, calls, fate, prompts, response,
                  it, attempts, reports >>

\* The duplicate test and the insertion (main.rs:91-109).
PlanInsert ==
  /\ pc = "insert"
  /\ IF cur.timestamp \in DOMAIN map
       THEN /\ collisions' = Append(collisions,
                 [path |-> cur.path, timestamp |-> cur.timestamp,
                  existing |-> map[cur.timestamp].path])
            /\ must_exit' = TRUE
            /\ UNCHANGED map
       ELSE /\ map' = map @@ (cur.timestamp :>
                                [path |-> cur.path, new_name |-> cur.new_name])
            /\ UNCHANGED << collisions, must_exit >>
  /\ pc' = "next"
  /\ UNCHANGED << dir, fs, needs_confirmation, cur, calls, fate, prompts, response,
                  it, attempts, reports >>

\* read_dir's iterator is exhausted: the loop ends (main.rs:110).
EndOfDirectory ==
  /\ pc = "next"
  /\ dir = {}
  /\ pc' = "check"
  /\ UNCHANGED << dir, fs, needs_confirmation, must_exit, map, cur, calls,
                  collisions, fate, prompts, response, it, attempts, reports >>

(***************************************************************************)
(* After the pass (main.rs:112-151)                                        *)
(***************************************************************************)

\* The run going on although must_exit is set.
CheckMustExit_Ignored ==
  /\ pc = "check"
  /\ pc' = "gate"
  /\ UNCHANGED << dir, fs, needs_confirmation, must_exit, map, cur, calls,
                  collisions, fate, prompts, response, it, attempts, reports >>

\* if must_exit { return } (main.rs:112-115).
CheckMustExit ==
  /\ pc = "check"
  /\ pc' = IF must_exit THEN "done" ELSE "gate"
  /\ UNCHANGED << dir, fs, needs_confirmation, must_exit, map, cur, calls,
                  collisions, fate, prompts, response, it, attempts, reports >>

\* The match with only "N" and "n" returning: any other response proceeds.
ConfirmationGate_OnlyNoAborts ==
  /\ pc = "gate"
  /\ IF needs_confirmation
       THEN \E r \in Responses :
              /\ prompts' = prompts + 1
              /\ response' = r
              /\ pc' = IF r \in {"N", "n"} THEN "done" ELSE "rename"
       ELSE /\ pc' = "rename"
            /\ UNCHANGED << prompts, response >>
  /\ UNCHANGED << dir, fs, needs_confirmation, must_exit, map, cur, calls,
                  collisions, fate, it, attempts, reports >>

\* if needs_confirmation { prompt, read, match } (main.rs:117-137).
ConfirmationGate ==
  /\ pc = "gate"
  /\ IF needs_confirmation
       THEN \E r \in Responses :
              /\ prompts' = prompts + 1
              /\ response' = r
              /\ pc' = IF r \in {"Y", "y"} THEN "rename" ELSE "done"
       ELSE /\ pc' = "rename"
            /\ UNCHANGED << prompts, response >>
  /\ UNCHANGED << dir, fs, needs_confirmation, must_exit, map, cur, calls,
                  collisions, fate, it, attempts, reports >>

\* fs::rename(from, to), to being relative to the current directory: on success
\* the file leaves its old name and takes the new one, replacing what was there.
Renamed(d, from, to) ==
  [n \in (DOMAIN d \ {FileName(from)}) \cup {to} |->
     IF n = to THEN d[FileName(from)] ELSE d[n]]

\* The rename loop returning at the first failed rename.
RenameNext_StopsOnFailure ==
  /\ pc = "rename"
  /\ it < Len(KeysInOrder(map))
  /\ LET timestamp == KeysInOrder(map)[it + 1]
         info == map[timestamp]
     IN  \E ok \in {b \in BOOLEAN : b => FileName(info.path) \in DOMAIN fs} :
           /\ fs' = IF ok THEN Renamed(fs, info.path, info.new_name) ELSE fs
           /\ attempts' = Append(attempts,
                 [timestamp |-> timestamp, from |-> info.path,
                  to |-> info.new_name, ok |-> ok])
           /\ reports' = Append(reports,
                 [kind |-> IF ok THEN "success" ELSE "failed", path |-> info.path])
           /\ pc' = IF ok THEN "rename" ELSE "done"
  /\ it' = it + 1
  /\ UNCHANGED << dir, needs_confirmation, must_exit, map, cur, calls,
                  collisions, fate, prompts, response >>

\* One turn of `for (timestamp, info) in map` (main.rs:140-151).  The rename
\* fails when the source is gone, and may fail for reasons outside the model
\* (permissions, I/O).
RenameNext ==
  /\ pc = "rename"
  /\ it < Len(KeysInOrder(map))
  /\ LET timestamp == KeysInOrder(map)[it + 1]
         info == map[timestamp]
     IN  \E ok \in {b \in BOOLEAN : b => FileName(info.path) \in DOMAIN fs} :
           /\ fs' = IF ok THEN Renamed(fs, info.path, info.new_name) ELSE fs
           /\ attempts' = Append(attempts,
                 [timestamp |-> timestamp, from |-> info.path,
                  to |-> info.new_name, ok |-> ok])
           /\ reports' = Append(reports,
                 [kind |-> IF ok THEN "success" ELSE "failed", path |-> info.path])
  /\ it' = it + 1
  /\ UNCHANGED << pc, dir, needs_confirmation, must_exit, map, cur, calls,
                  collisions, fate, prompts, response >>

\* The map's iterator is exhausted: `main` returns.
RenameDone ==
  /\ pc = "rename"
  /\ it = Len(KeysInOrder(map))
  /\ pc' = "done"
  /\ UNCHANGED << dir, fs, needs_confirmation, must_exit, map, cur, calls,
                  collisions, fate, prompts, response, it, attempts, reports >>

Next ==
  \/ ReadEntry
  \/ TryExif
  \/ TryCreationDate
  \/ TryCreateDate
  \/ PlanInsert
  \/ EndOfDirectory
  \/ CheckMustExit
  \/ ConfirmationGate
  \/ RenameNext
  \/ RenameDone

Spec == Init /\ [][Next]_vars


(***************************************************************************)
(* Properties                                                              *)
(***************************************************************************)

\* The paths recorded in the plan.
PlanPaths == {map[k].path : k \in DOMAIN map}

\* The files the resolver returned a pair for and the duplicate test has handled.
Processed ==
  {p \in DOMAIN fate :
     /\ fate[p].via \in {"primary", "secondary", "tertiary"}
     /\ ~(pc = "insert" /\ cur.path = p)}

\* The files for which get_timestamp_and_rename_pair returned None.
Unresolved == {p \in DOMAIN fate : fate[p].via = "unresolved"}

\* No file of the directory has changed its name.
NothingRenamed == attempts = << >> /\ \A n \in DOMAIN fs : fs[n] = n

\* t occurs in s.
Contains(s, t) == \E i \in 0..(Len(s) - Len(t)) : SubSeq(s, i + 1, i + Len(t)) = t

\* p's timestamp is a key of the plan and p is the file recorded under it, or the
\* error printed for p names p and the file recorded under it.
Accounted(p) ==
  LET ts == fate[p].timestamp
  IN  /\ ts \in DOMAIN map
      /\ \/ map[ts].path = p
         \/ \E i \in DOMAIN collisions :
              collisions[i] = [path |-> p, timestamp |-> ts, existing |-> map[ts].path]

\* C1: when two files of the batch have resolved to the same timestamp string,
\* must_exit is set, no rename is ever called and no file changes its name (the
\* files with unique timestamps included), and the error printed for the file
\* handled later names its path and the path recorded under that timestamp.
C1_CollisionMeansNoRename ==
  \A p \in Processed : \A q \in Processed :
     (p # q /\ fate[p].timestamp = fate[q].timestamp) =>
        /\ must_exit
        /\ NothingRenamed
        /\ pc \notin {"gate", "rename"}
        /\ Accounted(p)
        /\ Accounted(q)
        /\ map[fate[p].timestamp].path # p => map[fate[p].timestamp].path \in Processed \ {p}

\* C1 witness: a run that has ended after a collision, with another timestamp in
\* the plan that only one file holds.
C1_Witness ==
  /\ pc = "done"
  /\ collisions # << >>
  /\ Cardinality(DOMAIN map) >= 2

\* C2: a file with an unsupported extension is left out of the plan and sets
\* needs_confirmation, so that the rename loop is not reached without the prompt.
C2_UnsupportedSetsConfirmation ==
  \A p \in DOMAIN fate :
     fate[p].via = "unsupported" =>
        /\ p \notin PlanPaths
        /\ needs_confirmation
        /\ pc = "rename" => prompts = 1

\* C3: whatever exiftool prints for CreationDate, the adapter returns Some or None
\* and the run goes on; it never panics.
C3_CreationDateNeverPanics ==
  \A i \in DOMAIN calls : calls[i].adapter = "creationdate" => pc # "panicked"

Rank(adapter) ==
  CASE adapter = "exif" -> 1
    [] adapter = "creationdate" -> 2
    [] adapter = "createdate" -> 3

\* C4: for the entry in progress the adapters are called in the order exif,
\* creationdate, createdate, each at most once and none after a success; a file
\* routed to exif calls it first, and if it succeeds the timestamp is the EXIF
\* one and no tag adapter is called; creationdate is called only first on a file
\* not routed to exif or right after a failed exif; createdate only right after
\* a failed creationdate; the pair handed to the plan is the last call's result.
C4_FixedOrderFirstSuccessWins ==
  /\ \A i \in DOMAIN calls : \A j \in DOMAIN calls :
        i < j => Rank(calls[i].adapter) < Rank(calls[j].adapter) /\ ~calls[i].ok
  /\ \A i \in DOMAIN calls :
        /\ calls[i].adapter = "exif" => try_exif_first(cur.extension) = "exif"
        /\ calls[i].adapter = "creationdate" =>
              \/ i = 1 /\ try_exif_first(cur.extension) = "tool"
              \/ i = 2 /\ calls[1].adapter = "exif" /\ ~calls[1].ok
        /\ calls[i].adapter = "createdate" =>
              i > 1 /\ calls[i - 1].adapter = "creationdate" /\ ~calls[i - 1].ok
  /\ (calls # << >> /\ try_exif_first(cur.extension) = "exif") => calls[1].adapter = "exif"
  /\ (calls # << >> /\ calls[1].adapter = "exif" /\ calls[1].ok) =>
        /\ Len(calls) = 1
        /\ pc \notin {"creationdate", "createdate"}
        /\ cur.timestamp = Normalize(Meta(cur.path).exif.display)
  /\ pc = "insert" =>
        /\ calls # << >>
        /\ calls[Len(calls)].ok
        /\ cur.timestamp = calls[Len(calls)].val

\* C4 witness: a photo resolved by EXIF alone although its tags carry another
\* date, and the entry in progress resolved by the third adapter after two
\* failures.
C4_Witness ==
  /\ \E p \in DOMAIN fate :
        /\ fate[p] = Fate("primary", T_0525)
        /\ get_timestamp_from_exiftool_creationdate(Meta(p).creationdate).val = T_0514
  /\ Len(calls) = 3
  /\ calls[1].adapter = "exif"
  /\ calls[3].ok
  /\ pc = "insert"

\* The spellings of the video extensions a file name may carry.
VideoSpellings ==
  { B(<<"m","o","v">>), B(<<"M","O","V">>), B(<<"M","o","v">>),
    B(<<"m","p","4">>), B(<<"M","P","4">>), B(<<"M","p","4">>) }

\* The entry in progress is a file with a video extension.
CurIsVideo ==
  /\ PathExtension(cur.path).some
  /\ PathExtension(cur.path).val \in VideoSpellings

\* C5: for a file with a video extension, in any letter case, the EXIF adapter is
\* never called; the first adapter called is creationdate.
C5_VideoNeverTriesExif ==
  CurIsVideo =>
     /\ pc # "exif"
     /\ \A i \in DOMAIN calls : calls[i].adapter # "exif"
     /\ \/ calls = << >> /\ pc = "creationdate"
        \/ calls # << >> /\ calls[1].adapter = "creationdate"

\* C5 witness: a video with an upper-case extension, and one with a lower-case
\* extension before it, both resolved.
C5_Witness ==
  /\ PathExtension(cur.path) = Some(B(<<"M","P","4">>))
  /\ pc = "insert"
  /\ \E p \in DOMAIN fate :
        PathExtension(p) = Some(B(<<"m","o","v">>)) /\ fate[p].via = "tertiary"

\* C6: the target name of a plan entry (and of the pair about to be tested for
\* a duplicate) contains " (utc)" exactly when the file was resolved by CreateDate.
C6_UtcMarkerIffTertiary ==
  /\ \A k \in DOMAIN map :
        Contains(map[k].new_name, UtcMarker) <=> fate[map[k].path].via = "tertiary"
  /\ pc = "insert" =>
        (Contains(cur.new_name, UtcMarker) <=> fate[cur.path].via = "tertiary")

\* C6 witness: a plan with a CreateDate entry with an extension, one without an
\* extension, and an entry of another adapter.
C6_Witness ==
  \E k \in DOMAIN map : \E l \in DOMAIN map : \E m \in DOMAIN map :
     /\ fate[map[k].path].via = "tertiary" /\ PathExtension(map[k].path).some
     /\ fate[map[l].path].via = "tertiary" /\ ~PathExtension(map[l].path).some
     /\ fate[map[m].path].via # "tertiary"

\* C7: the prompt is printed at most once; after "Y" or "y" the run is in the
\* rename loop or has gone through all of it; after any other response the run
\* has ended and nothing has been renamed; and the rename loop is not entered
\* with needs_confirmation set unless the prompt was answered "Y" or "y".
C7_GateConsultedOnce ==
  /\ prompts <= 1
  /\ prompts = 0 => response = ""
  /\ prompts = 1 =>
        /\ needs_confirmation
        /\ response \in {"Y", "y"} =>
              /\ pc \in {"rename", "done"}
              /\ pc = "done" => Len(attempts) = Cardinality(DOMAIN map)
        /\ response \notin {"Y", "y"} => pc = "done" /\ NothingRenamed
  /\ (pc = "rename" /\ needs_confirmation) => prompts = 1 /\ response \in {"Y", "y"}

\* C7 witness: an unrecognised response has ended a run that had files to rename.
C7_Witness ==
  /\ prompts = 1
  /\ response = "yes"
  /\ pc = "done"
  /\ DOMAIN map # {}

\* The state part of C8.
C8_Attempts ==
  /\ Len(attempts) = it
  /\ Len(attempts) <= Cardinality(DOMAIN map)
  /\ \A i \in DOMAIN attempts :
        /\ attempts[i].timestamp \in DOMAIN map
        /\ attempts[i].from = map[attempts[i].timestamp].path
        /\ attempts[i].to = map[attempts[i].timestamp].new_name
        /\ \A j \in DOMAIN attempts :
              i < j => LexLess(attempts[i].timestamp, attempts[j].timestamp)
        /\ \A k \in DOMAIN map :
              LexLess(k, attempts[i].timestamp) =>
                 \E j \in 1..(i - 1) : attempts[j].timestamp = k
  /\ Len(reports) = Len(attempts)
  /\ \A i \in DOMAIN reports :
        reports[i] = [kind |-> IF attempts[i].ok THEN "success" ELSE "failed",
                      path |-> attempts[i].from]
  /\ (pc = "done" /\ attempts # << >>) => Len(attempts) = Cardinality(DOMAIN map)

\* The step part of C8.
C8_Step ==
  IF attempts' = attempts THEN fs' = fs
  ELSE /\ Len(attempts') = Len(attempts) + 1
       /\ SubSeq(attempts', 1, Len(attempts)) = attempts
       /\ LET a == attempts'[Len(attempts')]
              src == FileName(a.from)
          IN  IF a.ok
                THEN /\ src \in DOMAIN fs
                     /\ a.to \in DOMAIN fs'
                     /\ fs'[a.to] = fs[src]
                     /\ src # a.to => src \notin DOMAIN fs'
                     /\ \A n \in DOMAIN fs \ {src, a.to} :
                           n \in DOMAIN fs' /\ fs'[n] = fs[n]
                ELSE fs' = fs

\* C8: the rename loop attempts the entries of the plan in ascending order of
\* their keys, each once, skipping none, whether earlier attempts failed or not,
\* and prints one line per attempt, "success" or "failed" as the attempt went; a
\* step of the loop changes the directory by that one rename only (a failed
\* attempt changes nothing, the names other renames produced stay), and a run
\* that has started renaming ends only when every entry has been attempted.
C8_EveryEntryAttemptedInKeyOrder == [] C8_Attempts /\ [][C8_Step]_vars

\* C8 witness: a run that has ended with a failed first attempt and a successful
\* second one.
C8_Witness ==
  /\ pc = "done"
  /\ Len(attempts) >= 2
  /\ ~attempts[1].ok
  /\ attempts[2].ok

\* C9: the loop over the directory is left only when no entry remains, also after
\* a collision; every file handled by the duplicate test is the one recorded
\* under its timestamp or has its own error line naming the recorded file, one
\* line per such file, and must_exit is set exactly when a line was printed.
C9_AllCollisionsReported ==
  /\ pc \in {"check", "gate", "rename", "done"} => dir = {}
  /\ \A p \in Processed : Accounted(p)
  /\ Len(collisions) = Cardinality(Processed) - Cardinality(DOMAIN map)
  /\ \A i \in DOMAIN collisions : \A j \in DOMAIN collisions :
        i # j => collisions[i].path # collisions[j].path
  /\ must_exit <=> collisions # << >>

\* C9 witness: two collisions reported in one run, and a file that entered the
\* plan is not needed for it: three files share one timestamp.
C9_Witness ==
  /\ pc = "done"
  /\ Len(collisions) = 2
  /\ collisions[1].existing = collisions[2].existing

\* C10: a file for which the resolver returned None is not in the plan and not
\* in an error line, needs_confirmation is set, must_exit is set by printed
\* collisions only, the loop goes on after it (the run is at the loop head, or
\* past the loop with no entry left), and a run that was confirmed and has ended
\* has attempted every entry of the plan.
C10_UnresolvedFileIsSkipped ==
  /\ \A p \in Unresolved :
        /\ needs_confirmation
        /\ p \notin PlanPaths
        /\ \A i \in DOMAIN collisions : collisions[i].path # p
  /\ (Unresolved # {} /\ collisions = << >>) => ~must_exit
  /\ cur.path \in Unresolved =>
        /\ pc \in {"next", "check", "gate", "rename", "done"}
        /\ pc # "next" => dir = {}
  /\ (Unresolved # {} /\ pc = "done" /\ ~must_exit /\ response \in {"Y", "y"}) =>
        Len(attempts) = Cardinality(DOMAIN map)

\* C10 witness: a file was left unresolved, and the file read after it has been
\* renamed.
C10_Witness ==
  /\ Unresolved # {}
  /\ cur.path \notin Unresolved
  /\ ~must_exit
  /\ \E i \in DOMAIN attempts : attempts[i].ok /\ attempts[i].from = cur.path


\* The value an adapter normalizes for the entry in progress: the display value
\* of DateTimeOriginal, the CreationDate output without its last 7 bytes, the
\* CreateDate output without its last byte.
RawValue(adapter) ==
  LET m == Meta(cur.path)
  IN  CASE adapter = "exif" -> m.exif.display
        [] adapter = "creationdate" ->
             SubSeq(m.creationdate.stdout, 1, Len(m.creationdate.stdout) - 7)
        [] adapter = "createdate" ->
             SubSeq(m.createdate.stdout, 1, Len(m.createdate.stdout) - 1)

\* ts is raw with every space turned into '_' and every ':' into '-', and every
\* other byte kept.
IsNormalized(ts, raw) ==
  /\ Len(ts) = Len(raw)
  /\ \A i \in 1..Len(raw) :
        ts[i] = (IF raw[i] = 32 THEN 95 ELSE IF raw[i] = 58 THEN 45 ELSE raw[i])

C_Mov == Cwd \o B(<<"/","c",".","m","o","v">>)

\* C11: "2023:05:14 21:34:06" normalizes to "2023-05-14_21-34-06"; the timestamp
\* every adapter returns is its raw value with ' ' -> '_' and ':' -> '-' and
\* nothing else changed; and c.mov, which has the CreateDate tag
\* 2023:05:14 21:34:06 only, is planned as "2023-05-14_21-34-06 (utc).mov".
C11_NormalizationIsExact ==
  /\ Normalize(Tag_0514) = T_0514
  /\ \A i \in DOMAIN calls :
        calls[i].ok => IsNormalized(calls[i].val, RawValue(calls[i].adapter))
  /\ \A k \in DOMAIN map :
        map[k].path = C_Mov =>
           /\ k = T_0514
           /\ map[k].new_name =
                 T_0514 \o B(<<" ","(","u","t","c",")",".","m","o","v">>)

\* C11 witness: a directory with c.mov alone, renamed.
C11_Witness ==
  /\ pc = "done"
  /\ PlanPaths = {C_Mov}
  /\ DOMAIN fate = {C_Mov}
  /\ Len(attempts) = 1
  /\ attempts[1].ok
  /\ DOMAIN fs = {T_0514 \o B(<<" ","(","u","t","c",")",".","m","o","v">>)}


\* The bytes of e with the upper-case ASCII letters (65..90) made lower-case.
Lowered(e) == [i \in 1..Len(e) |-> IF e[i] >= 65 /\ e[i] <= 90 THEN e[i] + 32 ELSE e[i]]

\* The name a file at `path` resolved to `ts` is to get: the timestamp, then
\* " (utc)" when CreateDate resolved it, then '.' and the lower-cased extension
\* when the file name has one.  The stem of the file name has no part in it.
ExpectedName(path, ts, via) ==
  LET e == PathExtension(path)
  IN  ts \o (IF via = "tertiary" THEN <<32, 40, 117, 116, 99, 41>> ELSE << >>)
         \o (IF e.some THEN <<46>> \o Lowered(e.val) ELSE << >>)

\* C12: the target name of every plan entry, and of the pair about to be tested
\* for a duplicate, is made of the resolved timestamp, the marker for a CreateDate
\* result, and the dot and lower-cased extension when there is an extension, and
\* of nothing else.
C12_NameFromTimestampAndExtension ==
  /\ \A k \in DOMAIN map :
        /\ fate[map[k].path].timestamp = k
        /\ map[k].new_name = ExpectedName(map[k].path, k, fate[map[k].path].via)
  /\ pc = "insert" =>
        /\ fate[cur.path].timestamp = cur.timestamp
        /\ cur.new_name = ExpectedName(cur.path, cur.timestamp, fate[cur.path].via)

\* C12 witness: a plan holding b.HEIC as "<timestamp>.heic", the extension-less
\* k under its bare timestamp and the extension-less f as "<timestamp> (utc)".
C12_Witness ==
  /\ T_0525 \in DOMAIN map
  /\ map[T_0525] = [path |-> Cwd \o B(<<"/","b",".","H","E","I","C">>),
                    new_name |-> T_0525 \o B(<<".","h","e","i","c">>)]
  /\ T_0514 \in DOMAIN map
  /\ map[T_0514] = [path |-> Cwd \o B(<<"/","k">>), new_name |-> T_0514]
  /\ T_0526 \in DOMAIN map
  /\ map[T_0526] = [path |-> Cwd \o B(<<"/","f">>),
                    new_name |-> T_0526 \o B(<<" ","(","u","t","c",")">>)]


\* C13: an image whose EXIF adapter failed with a warning and which CreationDate
\* or CreateDate then resolved sets needs_confirmation, so that nothing is
\* renamed in that run before the prompt was answered "Y" or "y".
C13_ExifWarningSetsConfirmation ==
  ( /\ cur.path \in DOMAIN fate
    /\ fate[cur.path].via \in {"secondary", "tertiary"}
    /\ calls[1].adapter = "exif"
    /\ ~calls[1].ok )
  => /\ needs_confirmation
     /\ (pc = "rename" \/ attempts # << >>) => prompts = 1 /\ response \in {"Y", "y"}

\* C14: nothing is renamed while the pass over the directory, the must_exit test
\* or the prompt is still ahead: the rename loop runs only with no entry left
\* unread, must_exit unset, and the prompt answered "Y" or "y" if
\* needs_confirmation is set.
C14_NoRenameBeforePlanIsValidated ==
  /\ pc \in {"next", "exif", "creationdate", "createdate", "insert", "check", "gate",
             "panicked"} => NothingRenamed
  /\ (pc = "rename" \/ attempts # << >>) =>
        /\ dir = {}
        /\ ~must_exit
        /\ collisions = << >>
        /\ needs_confirmation => prompts = 1 /\ response \in {"Y", "y"}
        /\ \A i \in DOMAIN attempts : attempts[i].from \in PlanPaths

\* C14 witness: a confirmed run of several files in which a rename was made.
C14_Witness ==
  /\ Cardinality(DOMAIN map) >= 2
  /\ prompts = 1
  /\ \E i \in DOMAIN attempts : attempts[i].ok


\* The bytes '0'..'9'.
IsDigit(b) == b >= 48 /\ b <= 57

\* k has the form YYYY-MM-DD_HH-MM-SS.
Canonical(k) ==
  /\ Len(k) = 19
  /\ \A i \in {1, 2, 3, 4, 6, 7, 9, 10, 12, 13, 15, 16, 18, 19} : IsDigit(k[i])
  /\ \A i \in {5, 8, 14, 17} : k[i] = 45
  /\ k[11] = 95

\* C15: every key of the plan has the form YYYY-MM-DD_HH-MM-SS, whatever the
\* adapters were given; in particular for a CreationDate output whose timezone
\* is absent or not 6 characters long.
C15_KeysAreCanonical == \A k \in DOMAIN map : Canonical(k)


\* The state part of C16.
C16_FirstRecordedKept ==
  /\ \A k \in DOMAIN map : \A l \in DOMAIN map : map[k].path = map[l].path => k = l
  /\ \A i \in DOMAIN collisions :
        /\ collisions[i].timestamp \in DOMAIN map
        /\ map[collisions[i].timestamp].path = collisions[i].existing
        /\ collisions[i].path \notin PlanPaths

\* The step part of C16.
C16_Step ==
  /\ \A k \in DOMAIN map : k \in DOMAIN map' /\ map'[k] = map[k]
  /\ collisions' # collisions => map' = map
  /\ map' # map =>
        /\ pc = "insert"
        /\ cur.timestamp \notin DOMAIN map
        /\ DOMAIN map' = DOMAIN map \cup {cur.timestamp}
        /\ map'[cur.timestamp] = [path |-> cur.path, new_name |-> cur.new_name]

\* C16: no step removes or changes an entry of the plan; the step that handles a
\* file whose timestamp is already a key leaves the plan as it is, so the key
\* keeps the path and target name of the file recorded first and the new file
\* is in no entry; the only change ever made is the insertion of the pair in
\* progress under a key that was absent.
C16_PlanEntriesAreImmutable == [] C16_FirstRecordedKept /\ [][C16_Step]_vars

\* C16 witness: a.jpg was recorded, i.jpeg with the same timestamp came later,
\* and the entry is still a.jpg's.
C16_Witness ==
  /\ collisions # << >>
  /\ collisions[1].path = Cwd \o B(<<"/","i",".","j","p","e","g">>)
  /\ T_0525 \in DOMAIN map
  /\ map[T_0525] = [path |-> Cwd \o B(<<"/","a",".","j","p","g">>),
                    new_name |-> T_0525 \o B(<<".","j","p","g">>)]

\* C17: no two entries of the plan have the same target name, whichever adapters
\* resolved them and whether or not the files have extensions; so in particular
\* in every plan the rename loop works on.
C17_TargetNamesAreUnique ==
  \A k \in DOMAIN map : \A l \in DOMAIN map :
     k # l => map[k].new_name # map[l].new_name

\* C18: executing a validated plan never overwrites another file of the batch:
\* when an entry is renamed, its target name is not the current name of the
\* source file of a plan entry that is still to be renamed (the loop goes in
\* ascending key order, so those are the entries with a greater key).
C18_NoRenameOntoPendingSource ==
  \A i \in DOMAIN attempts :
     attempts[i].ok =>
        \A k \in DOMAIN map :
           LexLess(attempts[i].timestamp, k) =>
              FileName(map[k].path) # attempts[i].to

====
